---- MODULE Spec2Model ----
(***************************************************************************)
(* Tiered image upload, thumbnail bookkeeping and expiring-link            *)
(* resolution of core/views.py, core/utils.py and core/models.py.          *)
(*                                                                         *)
(* The database tables (Thumbnail, ExpiredLink, Images) and the file       *)
(* storage are the shared state.  An upload request is a process that      *)
(* performs its database writes one at a time, in the order of             *)
(* UploadImageView.post; a token request and a list request are one read   *)
(* of the tables.  SpecStored starts from rows stored without an upload,   *)
(* SpecThumbnail calls the two thumbnail functions on images of many sizes.*)
(* A nullable column is a sequence of length at most one: << >> is NULL.   *)
(***************************************************************************)
EXTENDS Integers, Sequences, FiniteSets, TLC

\* ---------------------------------------------------------------- bounds
MaxUploads == 1      \* upload requests in one behaviour, all concurrent
MaxTicks == 2        \* clock advances in one behaviour

\* ------------------------------------------------------ program constants
MinExpiredTime == 300      \* MinValueValidator of Images.expired_time
MaxExpiredTime == 30000    \* MaxValueValidator of Images.expired_time
SmallTarget == 200
LargeTarget == 400
HTTP_201_CREATED == 201
HTTP_200_OK == 200
HTTP_400_BAD_REQUEST == 400
HTTP_403_FORBIDDEN == 403
HTTP_404_NOT_FOUND == 404
HTTP_500_INTERNAL_SERVER_ERROR == 500

ClockStep == MinExpiredTime   \* the clock is observed every ClockStep seconds

ReqIds == 1..MaxUploads
UnknownToken == 0    \* a token value that generate_random_token never returns

\* ------------------------------------------------------------------ tiers
\* Tier rows: name and the three capability flags of core.models.Tier.
Tier(n, th, op, el) ==
    [name |-> n, thumbnails |-> th, original_photo |-> op, expiring_link |-> el]

\* the three rows seeded by create_tiers_and_superuser
SeededTiers ==
    { Tier("Basic", FALSE, FALSE, FALSE),
      Tier("Premium", TRUE, TRUE, FALSE),
      Tier("Enterprise", TRUE, TRUE, TRUE) }

\* a row created by name only (flags keep their default False), as the
\* repository's tests do
PlainTiers ==
    { Tier("Enterprise", FALSE, FALSE, FALSE),
      Tier("Normal", FALSE, FALSE, FALSE) }

\* a row whose flags were edited through TierAdmin.list_editable
EditedTiers ==
    { Tier("Basic", FALSE, FALSE, TRUE) }

TierTable == SeededTiers \cup PlainTiers \cup EditedTiers

\* ------------------------------------------------------------------ users
\* request.user: an authenticated User row with its nullable tier, or the
\* AnonymousUser.
UserOf(i, t) == [id |-> i, is_anonymous |-> FALSE, tier |-> t]

AnonymousUser == [id |-> "anonymous", is_anonymous |-> TRUE, tier |-> << >>]

Users ==
    { UserOf("user_basic", <<Tier("Basic", FALSE, FALSE, FALSE)>>),
      UserOf("user_premium", <<Tier("Premium", TRUE, TRUE, FALSE)>>),
      UserOf("user_enterprise", <<Tier("Enterprise", TRUE, TRUE, TRUE)>>),
      UserOf("user_enterprise_plain", <<Tier("Enterprise", FALSE, FALSE, FALSE)>>),
      UserOf("user_normal", <<Tier("Normal", FALSE, FALSE, FALSE)>>),
      UserOf("user_basic_link", <<Tier("Basic", FALSE, FALSE, TRUE)>>),
      UserOf("user_invalid", << >>) }

RequestUsers == Users \cup {AnonymousUser}

\* the users that send list requests: one of each seeded tier and the
\* anonymous user
ListUsers ==
    {u \in RequestUsers : u.id \in {"user_basic", "user_premium",
                                      "user_enterprise", "anonymous"}}

\* --------------------------------------------------------- request inputs
\* The image part of the multipart body: the client's file name, the
\* content type the client declares, and what the bytes really are.
Upload(n, c, f) == [name |-> n, content_type |-> c, format |-> f]

NoImage == Upload("", "", "")     \* the body has no image part

\* What a request's image part is: absent, a jpeg or png declared as one
\* ("valid"), bytes that are no image declared as jpeg or png
\* ("undecodable"), or anything else.
ImageClass(image) ==
    IF image = NoImage THEN "absent"
    ELSE IF /\ image.content_type \in {"image/jpeg", "image/png"}
            /\ image.format \in {"jpeg", "png"}
         THEN "valid"
    ELSE IF /\ image.content_type \in {"image/jpeg", "image/png"}
            /\ image.format = "undecodable"
         THEN "undecodable"
    ELSE "invalid"

ImageParts ==
    { Upload("photo.jpg", "image/jpeg", "png"),
      Upload("photo", "image/png", "png"),
      Upload("photo.jpg", "image/jpeg", "bmp"),
      Upload("photo.gif", "image/gif", "gif"),
      Upload("photo.jpg", "image/jpeg", "undecodable") }

NoValue == "<None>"     \* request.data.get('expired_time', None) -> None
ExpiredTimeInputs == {NoValue, "300", "30001"}

\* int(expired_time): << n >> on success, << >> when int() raises.
IntOf(s) ==
    CASE s = "300" -> <<300>>
      [] s = "30001" -> <<30001>>
      [] OTHER -> << >>

\* mimetypes.guess_type(path)[0]: decided by the extension of the name.
GuessType(name) ==
    CASE name = "photo.jpg" -> <<"image/jpeg">>
      [] name = "photo.gif" -> <<"image/gif">>
      [] OTHER -> << >>

\* ------------------------------------------------------------------- URLs
\* A URL or path that names a token is the text before the token, the token
\* and the text after it; text is a sequence of pieces, "/" being one piece.
Origin == "http://testserver"     \* scheme and host of the request

\* reverse('token_view', args=[token]) for the route 'token/<str:token>/'
reverse_token_view(token) ==
    [before |-> <<"/", "token", "/">>, token |-> token, after |-> <<"/">>]

\* request.build_absolute_uri('/'): text without a token
base_url == <<Origin, "/">>

\* request.build_absolute_uri(location) for a location that starts with "/"
build_absolute_uri(location) ==
    [location EXCEPT !.before = <<Origin>> \o @]

\* f'{base_url}{token_url}' of UploadImageView.post
complete_url(token_url) ==
    [token_url EXCEPT !.before = base_url \o @]

\* The URL resolver on the path of url: TRUE when the route
\* 'token/<str:token>/' matches it.  Two slashes in a row are not merged.
MatchesTokenRoute(url) ==
    /\ url.before = <<Origin, "/", "token", "/">>
    /\ url.after = <<"/">>

\* The response records, besides the answer, the request it answers: the
\* user, the class of the image part and the expired_time field.
VARIABLES
    clock,        \* timezone.now(), in seconds
    ticks,        \* number of clock advances so far
    pc,           \* position of each upload request in UploadImageView.post
    req,          \* locals of each upload request
    thumbnails,   \* Thumbnail table
    links,        \* ExpiredLink table
    images,       \* Images table
    storage,      \* originals written to the file storage, by request
    response      \* the HTTP response produced by the last step, if any

vars == <<clock, ticks, pc, req, thumbnails, links, images, storage, response>>

NoRequest ==
    [user |-> AnonymousUser, name |-> "", format |-> "", image |-> "",
     expired_time |-> NoValue, issued_at |-> 0, expiration_time |-> 0]

NoResponse ==
    [kind |-> "none", rid |-> 0, token |-> 0, status |-> 0, body |-> "",
     keys |-> {}, file |-> << >>, user |-> AnonymousUser, image |-> "",
     expired_time |-> NoValue, issued_at |-> 0, expired_link |-> << >>,
     entries |-> {}]

UploadResponse(r, q, st, b, k) ==
    [kind |-> "upload", rid |-> r, token |-> 0, status |-> st, body |-> b,
     keys |-> k, file |-> << >>, user |-> q.user, image |-> q.image,
     expired_time |-> q.expired_time, issued_at |-> q.issued_at,
     expired_link |->
         IF "expired_link" \in k
           THEN LET expired_link == CHOOSE l \in links : l.id = r
                IN  <<complete_url(reverse_token_view(expired_link.token))>>
           ELSE << >>,
     entries |-> {}]

TokenResponse(t, st, b, f) ==
    [kind |-> "token", rid |-> 0, token |-> t, status |-> st, body |-> b,
     keys |-> {}, file |-> f, user |-> AnonymousUser, image |-> "",
     expired_time |-> NoValue, issued_at |-> 0, expired_link |-> << >>,
     entries |-> {}]

ListResponse(user, st, b, e) ==
    [kind |-> "list", rid |-> 0, token |-> 0, status |-> st, body |-> b,
     keys |-> {}, file |-> << >>, user |-> user, image |-> "",
     expired_time |-> NoValue, issued_at |-> 0, expired_link |-> << >>,
     entries |-> e]

Init ==
    /\ clock = 0
    /\ ticks = 0
    /\ pc = [r \in ReqIds |-> "idle"]
    /\ req = [r \in ReqIds |-> NoRequest]
    /\ thumbnails = {}
    /\ links = {}
    /\ images = {}
    /\ storage = {}
    /\ response = NoResponse

\* ------------------------------------------------------------- validation
\* validation_photo_views without its is_anonymous test: the anonymous user
\* falls through to the tier test.
validation_photo_views_NoAnonymousTest(user, hasImage, ctype) ==
    IF ~hasImage THEN "Image data not provided."
    ELSE IF user.tier = << >> THEN "User does not have a valid tier."
    ELSE IF ctype \notin {"image/jpeg", "image/png"}
         THEN "Invalid image format. Use jpg or png."
    ELSE "ok"

\* validation_photo_views with the content-type test moved before the tier
\* test.
validation_photo_views_FormatBeforeTier(user, hasImage, ctype) ==
    IF user.is_anonymous THEN "Cannot Add data."
    ELSE IF ~hasImage THEN "Image data not provided."
    ELSE IF ctype \notin {"image/jpeg", "image/png"}
         THEN "Invalid image format. Use jpg or png."
    ELSE IF user.tier = << >> THEN "User does not have a valid tier."
    ELSE "ok"

\* validation_photo_views: "ok" for None, else the error text of the 400.
validation_photo_views(user, hasImage, ctype) ==
    IF user.is_anonymous THEN "Cannot Add data."
    ELSE IF ~hasImage THEN "Image data not provided."
    ELSE IF user.tier = << >> THEN "User does not have a valid tier."
    ELSE IF ctype \notin {"image/jpeg", "image/png"}
         THEN "Invalid image format. Use jpg or png."
    ELSE "ok"

\* PILImage.open(image_data): raises on bytes that are no image.
Decodable(fmt) == fmt # "undecodable"

\* the format check of Images.save: TRUE when super().save() is reached.
Images_save_accepts(image, fmt) ==
    image # << >> => fmt \in {"jpeg", "jpg", "png"}

InFlight == {r \in ReqIds : pc[r] \notin {"idle", "done"}}

\* Finish with every failure answered as a bad request
Finish_AsBadRequest(r, st, b, k) ==
    /\ pc' = [pc EXCEPT ![r] = "done"]
    /\ req' = [req EXCEPT ![r] = NoRequest]
    /\ response' = UploadResponse(r, req[r],
                                  IF st = HTTP_201_CREATED THEN st
                                  ELSE HTTP_400_BAD_REQUEST, b, k)

\* the end of an upload request that reached the database: its response
Finish(r, st, b, k) ==
    /\ pc' = [pc EXCEPT ![r] = "done"]
    /\ req' = [req EXCEPT ![r] = NoRequest]
    /\ response' = UploadResponse(r, req[r], st, b, k)

\* ------------------------------------------------------------ upload steps
\* UploadImageView.post from the start to the Thumbnail row it writes:
\* validation, the tier branch, int(expired_time) and the clock read, decoding
\* and create_img_200 / create_img_200_400.  The Thumbnail row is new and
\* nothing refers to it yet, so its create() and save() are one step.  A
\* request that is answered before it writes anything is done in this step.
UploadBegin(r, user, image, et) ==
    /\ pc[r] = "idle"
    /\ \A s \in ReqIds : s < r => pc[s] # "idle"
    /\ LET q == [user |-> user, name |-> image.name, format |-> image.format,
                 image |-> ImageClass(image), expired_time |-> et,
                 issued_at |-> 0, expiration_time |-> 0]
           fail(st, b) ==
               /\ response' = UploadResponse(r, q, st, b, {})
               /\ pc' = [pc EXCEPT ![r] = "done"]
               /\ UNCHANGED <<req, thumbnails>>
           start(row, at, nxt) ==
               /\ thumbnails' = thumbnails \cup {row}
               /\ pc' = [pc EXCEPT ![r] = nxt]
               /\ req' = [req EXCEPT ![r] = at]
               /\ response' = NoResponse
           v == validation_photo_views(user, image # NoImage, image.content_type)
           tier == IF user.tier = << >> THEN "" ELSE user.tier[1].name
       IN  IF image = NoImage
             THEN fail(HTTP_500_INTERNAL_SERVER_ERROR, "MultiValueDictKeyError")
           ELSE IF v # "ok"
             THEN fail(HTTP_400_BAD_REQUEST, v)
           ELSE IF tier = "Basic"
             THEN IF ~Decodable(image.format)
                    THEN fail(HTTP_500_INTERNAL_SERVER_ERROR, "UnidentifiedImageError")
                    ELSE start([id |-> r, thumbnail_200 |-> TRUE, thumbnail_400 |-> FALSE],
                               q, "final")
           ELSE IF tier = "Premium"
             THEN IF ~Decodable(image.format)
                    THEN fail(HTTP_500_INTERNAL_SERVER_ERROR, "UnidentifiedImageError")
                    ELSE start([id |-> r, thumbnail_200 |-> TRUE, thumbnail_400 |-> TRUE],
                               q, "original")
           ELSE IF tier = "Enterprise"
             THEN IF et = NoValue
                    THEN fail(HTTP_500_INTERNAL_SERVER_ERROR, "TypeError")
                  ELSE IF IntOf(et) = << >>
                    THEN fail(HTTP_500_INTERNAL_SERVER_ERROR, "ValueError")
                  ELSE IF ~Decodable(image.format)
                    THEN fail(HTTP_500_INTERNAL_SERVER_ERROR, "UnidentifiedImageError")
                    ELSE start([id |-> r, thumbnail_200 |-> TRUE, thumbnail_400 |-> TRUE],
                               [q EXCEPT !.issued_at = clock,
                                         !.expiration_time = clock + IntOf(et)[1]],
                               "link")
           ELSE fail(HTTP_400_BAD_REQUEST, "Expired time is not provided for this image.")
    /\ UNCHANGED <<clock, ticks, links, images, storage>>

\* generate_random_token: 32 characters drawn from 62.  Two draws are taken
\* to differ, and a draw is named after the request that makes it.
generate_random_token(r) == r

\* ExpiredLink.objects.create(token=..., expiration_time=...)
CreateExpiredLink(r) ==
    /\ pc[r] = "link"
    /\ links' = links \cup
          {[id |-> r, token |-> generate_random_token(r),
            expiration_time |-> req[r].expiration_time]}
    /\ pc' = [pc EXCEPT ![r] = "original"]
    /\ response' = NoResponse
    /\ UNCHANGED <<clock, ticks, req, thumbnails, images, storage>>

\* SaveOriginal with the instance saved before the file is attached to it:
\* the row is written with an empty image column.
SaveOriginal_RowBeforeFile(r) ==
    /\ pc[r] = "original"
    /\ storage' = storage \cup {r}
    /\ images' = images \cup
          {[id |-> r, owner |-> req[r].user.id, image |-> << >>,
            thumbnail |-> << >>, expired_link |-> << >>,
            expired_time |-> IF req[r].user.tier[1].name = "Enterprise"
                               THEN IntOf(req[r].expired_time) ELSE << >>]}
    /\ pc' = [pc EXCEPT ![r] = "final"]
    /\ response' = NoResponse
    /\ UNCHANGED <<clock, ticks, req, thumbnails, links>>

\* image.image.save(image_name, image_data): the file is written, then the
\* instance is saved (FieldFile.save with save=True) before thumbnail and
\* expired_link are assigned.
SaveOriginal(r) ==
    /\ pc[r] = "original"
    /\ storage' = storage \cup {r}
    /\ LET q == req[r]
           row == [id |-> r, owner |-> q.user.id, image |-> <<q.name>>,
                   thumbnail |-> << >>, expired_link |-> << >>,
                   expired_time |-> IF q.user.tier[1].name = "Enterprise"
                                      THEN IntOf(q.expired_time) ELSE << >>]
       IN  IF Images_save_accepts(row.image, q.format)
             THEN /\ images' = images \cup {row}
                  /\ pc' = [pc EXCEPT ![r] = "final"]
                  /\ req' = req
                  /\ response' = NoResponse
             ELSE /\ images' = images
                  /\ Finish(r, HTTP_500_INTERNAL_SERVER_ERROR, "ValidationError", {})
    /\ UNCHANGED <<clock, ticks, thumbnails, links>>

\* the last image.save() of each branch and the 201 response.
FinalSave(r) ==
    /\ pc[r] = "final"
    /\ LET q == req[r]
           tier == q.user.tier[1].name
       IN  IF tier = "Basic"
             THEN /\ images' = images \cup
                        {[id |-> r, owner |-> q.user.id, image |-> << >>,
                          thumbnail |-> <<r>>, expired_link |-> << >>,
                          expired_time |-> << >>]}
                  /\ Finish(r, HTTP_201_CREATED, "created",
                            {"id", "thumbnail_link", "owner"})
           ELSE IF tier = "Premium"
             THEN /\ images' = {IF m.id = r THEN [m EXCEPT !.thumbnail = <<r>>] ELSE m
                                : m \in images}
                  /\ Finish(r, HTTP_201_CREATED, "created",
                            {"id", "image", "thumbnail_link_200",
                             "thumbnail_link_400", "owner"})
           ELSE /\ images' = {IF m.id = r
                                THEN [m EXCEPT !.thumbnail = <<r>>,
                                               !.expired_link = <<r>>]
                                ELSE m : m \in images}
                /\ Finish(r, HTTP_201_CREATED, "created",
                          {"id", "image", "thumbnail_link_200",
                           "thumbnail_link_400", "expired_link", "owner"})
    /\ UNCHANGED <<clock, ticks, thumbnails, links, storage>>

\* --------------------------------------------------------- token endpoint
\* TokenView.get with a lookup that answers a missing row like an expired one.
TokenView_get_MissingAsExpired(token) ==
    IF \E l \in links : l.token = token /\ ~(l.expiration_time < clock)
      THEN TokenResponse(token, HTTP_200_OK, "file", << >>)
      ELSE TokenResponse(token, HTTP_400_BAD_REQUEST, "This link has expired.", << >>)

\* TokenView.get that tests the expiration time only when no Images row is
\* bound to the token, and returns the file of a bound row otherwise.
TokenView_get_ExpiryOnlyUnbound(token) ==
    LET found == {l \in links : l.token = token}
        bound == {m \in images : \E l \in found : m.expired_link = <<l.id>>}
    IN  IF found = {}
          THEN TokenResponse(token, HTTP_404_NOT_FOUND, "Not found.", << >>)
        ELSE IF bound # {}
          THEN TokenResponse(token, HTTP_200_OK, "file",
                             <<(CHOOSE m \in bound : TRUE).id>>)
        ELSE IF \E l \in found : l.expiration_time < clock
          THEN TokenResponse(token, HTTP_400_BAD_REQUEST,
                             "This link has expired.", << >>)
        ELSE TokenResponse(token, HTTP_400_BAD_REQUEST,
                           "No image found for this link.", << >>)

\* TokenView.get as a function of the tables and the clock.
TokenView_get(token) ==
    LET found == {l \in links : l.token = token}
    IN  IF found = {}
          THEN TokenResponse(token, HTTP_404_NOT_FOUND, "Not found.", << >>)
        ELSE IF Cardinality(found) > 1
          THEN TokenResponse(token, HTTP_500_INTERNAL_SERVER_ERROR,
                             "MultipleObjectsReturned", << >>)
        ELSE LET expired_link == CHOOSE l \in found : TRUE
                 bound == {m \in images : m.expired_link = <<expired_link.id>>}
             IN  IF expired_link.expiration_time < clock
                   THEN TokenResponse(token, HTTP_400_BAD_REQUEST,
                                      "This link has expired.", << >>)
                 ELSE IF bound = {}
                   THEN TokenResponse(token, HTTP_400_BAD_REQUEST,
                                      "No image found for this link.", << >>)
                 ELSE LET image == CHOOSE m \in bound : \A n \in bound : m.id <= n.id
                      IN  IF image.image = << >>
                            THEN TokenResponse(token, HTTP_500_INTERNAL_SERVER_ERROR,
                                               "ValueError", << >>)
                          ELSE IF GuessType(image.image[1]) = << >>
                            THEN TokenResponse(token, HTTP_500_INTERNAL_SERVER_ERROR,
                                               "AttributeError", << >>)
                          ELSE TokenResponse(token, HTTP_200_OK, "file", <<image.id>>)

StoredTokens == {l.token : l \in links}

\* GET token/<token>/ that deletes the ExpiredLink row it finds expired.
TokenRequest_DeletesExpired(token) ==
    /\ response' = TokenView_get(token)
    /\ links' = {l \in links : ~(l.token = token /\ l.expiration_time < clock)}
    /\ UNCHANGED <<clock, ticks, pc, req, thumbnails, images, storage>>

\* GET token/<token>/ for a stored token value or for one that is not stored.
TokenRequest(token) ==
    /\ response' = TokenView_get(token)
    /\ UNCHANGED <<clock, ticks, pc, req, thumbnails, links, images, storage>>

\* GET of the expired_link URL that the 201 response of upload r carried:
\* the resolver dispatches it to TokenView.get or answers 404.
FollowUploadLink(r) ==
    /\ pc[r] = "done"
    /\ \E l \in links :
          /\ l.id = r
          /\ \E m \in images : m.id = r /\ m.expired_link = <<l.id>>
          /\ LET url == complete_url(reverse_token_view(l.token))
                 answer == IF MatchesTokenRoute(url)
                             THEN TokenView_get(url.token)
                             ELSE TokenResponse(url.token, HTTP_404_NOT_FOUND,
                                                "Not Found", << >>)
             IN  response' = [answer EXCEPT !.kind = "link", !.rid = r,
                                            !.expired_link = <<url>>]
    /\ UNCHANGED <<clock, ticks, pc, req, thumbnails, links, images, storage>>

\* ---------------------------------------------------------- list endpoint
\* the dictionary of ListImagesView.get with "image" and "owner" set to None
ListEntry_OriginalHidden(img) ==
    [id |-> img.id, image |-> << >>, thumbnail_200 |-> FALSE,
     thumbnail_400 |-> FALSE, expired_link |-> << >>, owner |-> << >>]

\* the dictionary ListImagesView.get builds for one Images row
ListEntry(img) ==
    LET thumbnail == {t \in thumbnails : img.thumbnail = <<t.id>>}
        expired_link == {l \in links : img.expired_link = <<l.id>>}
    IN  [id |-> img.id,
         image |-> img.image,
         thumbnail_200 |-> \E t \in thumbnail : t.thumbnail_200,
         thumbnail_400 |-> \E t \in thumbnail : t.thumbnail_400,
         expired_link |->
             IF expired_link = {} THEN << >>
             ELSE <<build_absolute_uri(reverse_token_view(
                        (CHOOSE l \in expired_link : TRUE).token))>>,
         owner |-> <<img.owner>>]

\* ListImagesView.get with the owner filter left out
ListImagesView_get_AllRows(user) ==
    IF user.is_anonymous
      THEN ListResponse(user, HTTP_403_FORBIDDEN,
                        "Authentication credentials were not provided.", {})
      ELSE ListResponse(user, HTTP_200_OK, "list",
                        {ListEntry(img) : img \in images})

\* ListImagesView.get: IsAuthenticated, then the rows of the user.
ListImagesView_get(user) ==
    IF user.is_anonymous
      THEN ListResponse(user, HTTP_403_FORBIDDEN,
                        "Authentication credentials were not provided.", {})
      ELSE ListResponse(user, HTTP_200_OK, "list",
                        {ListEntry(img) : img \in {m \in images : m.owner = user.id}})

\* GET of the list endpoint
ListRequest(user) ==
    /\ response' = ListImagesView_get(user)
    /\ UNCHANGED <<clock, ticks, pc, req, thumbnails, links, images, storage>>

\* ------------------------------------------------------------------ clock
Tick ==
    /\ ticks < MaxTicks
    /\ ticks' = ticks + 1
    /\ clock' = clock + ClockStep
    /\ response' = NoResponse
    /\ UNCHANGED <<pc, req, thumbnails, links, images, storage>>

Next ==
    \/ \E r \in ReqIds, user \in RequestUsers, image \in ImageParts \cup {NoImage},
          et \in ExpiredTimeInputs :
            UploadBegin(r, user, image, et)
    \/ \E r \in ReqIds : CreateExpiredLink(r)
    \/ \E r \in ReqIds : SaveOriginal(r)
    \/ \E r \in ReqIds : FinalSave(r)
    \/ \E token \in StoredTokens \cup {UnknownToken} : TokenRequest(token)
    \/ \E r \in ReqIds : FollowUploadLink(r)
    \/ \E user \in ListUsers : ListRequest(user)
    \/ Tick

Spec == Init /\ [][Next]_vars

\* ------------------------------------------------------------- thumbnails
\* widths and heights of the source images, around the two target sizes
Dimensions == {1, 150, 199, 200, 201, 300, 399, 400, 401, 600, 800, 1000}

Abs(n) == IF n < 0 THEN 0 - n ELSE n

\* round_aspect of Image.thumbnail for number = num / den, the width that
\* keeps the aspect ratio at the target height: its floor or its ceiling,
\* whichever gives the closer ratio (the floor on a tie), and at least 1.
round_aspect(num, den) ==
    LET floor == num \div den
        ceil == IF num % den = 0 THEN floor ELSE floor + 1
        key(n) == Abs(num - n * den)
        best == IF key(floor) <= key(ceil) THEN floor ELSE ceil
    IN  IF best < 1 THEN 1 ELSE best

\* img.thumbnail((img.width, target)) on an image of size <<w, h>>: the box is
\* as wide as the image, so only the height is limited; an image that fits
\* the box is left as it is.
Image_thumbnail(size, target) ==
    LET w == size[1]
        h == size[2]
    IN  IF target >= h THEN size
        ELSE <<round_aspect(target * w, h), target>>

\* the first free Thumbnail id
NextThumbnailId == CHOOSE r \in ReqIds : \A s \in ReqIds : s < r <=> s \in {t.id : t \in thumbnails}

\* what a call of create_img_200 / create_img_200_400 made of its image
ThumbnailResult(size, s200, s400) ==
    [ListResponse(AnonymousUser, 0, "thumbnail", {}) EXCEPT
        !.kind = "thumbnail",
        !.rid = NextThumbnailId,
        !.entries = {[source |-> size, thumbnail_200 |-> s200,
                      thumbnail_400 |-> s400]}]

\* create_img_200(image_name, img, request) on an image of the given size
create_img_200(size) ==
    /\ \E r \in ReqIds : \A t \in thumbnails : t.id # r
    /\ thumbnails' = thumbnails \cup
          {[id |-> NextThumbnailId, thumbnail_200 |-> TRUE, thumbnail_400 |-> FALSE]}
    /\ response' = ThumbnailResult(size, <<Image_thumbnail(size, SmallTarget)>>, << >>)
    /\ UNCHANGED <<clock, ticks, pc, req, links, images, storage>>

\* create_img_200_400(image_name, img, request) on an image of the given size
create_img_200_400(size) ==
    /\ \E r \in ReqIds : \A t \in thumbnails : t.id # r
    /\ thumbnails' = thumbnails \cup
          {[id |-> NextThumbnailId, thumbnail_200 |-> TRUE, thumbnail_400 |-> TRUE]}
    /\ response' = ThumbnailResult(size, <<Image_thumbnail(size, SmallTarget)>>,
                                   <<Image_thumbnail(size, LargeTarget)>>)
    /\ UNCHANGED <<clock, ticks, pc, req, links, images, storage>>

ThumbnailNext ==
    \/ \E w, h \in Dimensions : create_img_200(<<w, h>>)
    \/ \E w, h \in Dimensions : create_img_200_400(<<w, h>>)

SpecThumbnail == Init /\ [][ThumbnailNext]_vars

\* ------------------------------------------------------------- serializer
\* Meta.fields = '__all__': the columns of Images
ImagesFields == {"id", "owner", "image", "thumbnail", "expired_link", "expired_time"}

\* ImageSerializer.__init__ with the Enterprise branch keeping 'owner'
ImageSerializer_fields_OwnerKept(user) ==
    IF user.tier[1].name # "Enterprise"
      THEN ImagesFields \ {"expired_time", "thumbnail", "owner", "expired_link"}
      ELSE ImagesFields \ {"thumbnail", "expired_link"}

\* ImageSerializer.__init__: the fields left for a user that has a tier
ImageSerializer_fields(user) ==
    IF user.tier[1].name # "Enterprise"
      THEN ImagesFields \ {"expired_time", "thumbnail", "owner", "expired_link"}
      ELSE ImagesFields \ {"owner", "thumbnail", "expired_link"}

\* ImageSerializer(instance, context={'request': request}) for a stored row;
\* user.tier.name raises for a user without a tier.
SerializeRequest(user) ==
    /\ images # {}
    /\ response' =
          IF user.tier = << >>
            THEN [ListResponse(user, 0, "AttributeError", {}) EXCEPT
                      !.kind = "serializer"]
            ELSE [ListResponse(user, 0, "fields", {}) EXCEPT
                      !.kind = "serializer",
                      !.keys = ImageSerializer_fields(user)]
    /\ UNCHANGED <<clock, ticks, pc, req, thumbnails, links, images, storage>>

\* ------------------------------------------------------------ stored rows
\* Rows that the admin site (ExpiredAdmin, ImagesAdmin) and the ORM can
\* store without an upload, as the tests of the views do: an ExpiredLink row
\* with any expiration time, an Images row with or without a file and with or
\* without an ExpiredLink.
StoredLinkRows(i) ==
    {[id |-> i, token |-> i, expiration_time |-> e] : e \in {0, ClockStep}}

StoredImageRows(i) ==
    {[id |-> i, owner |-> o, image |-> f, thumbnail |-> << >>,
      expired_link |-> l, expired_time |-> << >>] :
        o \in {"user_basic", "user_enterprise"},
        f \in {<< >>, <<"photo.jpg">>},
        l \in {<< >>} \cup {<<j>> : j \in ReqIds}}

\* the tables that hold, for each id, no row or one of the rows above
StoredLinkTables ==
    {UNION {f[i] : i \in ReqIds} :
        f \in {g \in [ReqIds -> {{}} \cup {{l} : l \in UNION {StoredLinkRows(i) : i \in ReqIds}}] :
                  \A i \in ReqIds : \A l \in g[i] : l.id = i}}

StoredImageTables ==
    {UNION {f[i] : i \in ReqIds} :
        f \in {g \in [ReqIds -> {{}} \cup {{m} : m \in UNION {StoredImageRows(i) : i \in ReqIds}}] :
                  \A i \in ReqIds : \A m \in g[i] : m.id = i}}

StoredInit ==
    /\ clock = 0
    /\ ticks = 0
    /\ pc = [r \in ReqIds |-> "done"]
    /\ req = [r \in ReqIds |-> NoRequest]
    /\ thumbnails = {}
    /\ links \in StoredLinkTables
    /\ images \in StoredImageTables
    /\ storage = {m.id : m \in {n \in images : n.image # << >>}}
    /\ response = NoResponse

StoredNext ==
    \/ \E token \in StoredTokens \cup {UnknownToken} : TokenRequest(token)
    \/ \E user \in ListUsers : ListRequest(user)
    \/ \E user \in RequestUsers : SerializeRequest(user)
    \/ Tick

SpecStored == StoredInit /\ [][StoredNext]_vars

\* ================================================================ claims
\* the tier of the user that owns a Media row
OwnerTier(m) == (CHOOSE u \in Users : u.id = m.owner).tier[1]

\* the Media rows bound to the stored token value t that hold an original
BoundOriginals(t) ==
    {m \in images : /\ m.image # << >>
                    /\ \E l \in links : l.token = t /\ m.expired_link = <<l.id>>}

\* C1: resolving a stored token bound to a Media with an original returns that
\* Media's file when the token's expiration time is not before the clock, the
\* 400 body "This link has expired." when it is, and never 404.
C1_ResolveStoredToken ==
    (response.kind = "token" /\ BoundOriginals(response.token) # {}) =>
        \A l \in links : l.token = response.token =>
            /\ response.status # HTTP_404_NOT_FOUND
            /\ IF l.expiration_time < clock
                 THEN /\ response.status = HTTP_400_BAD_REQUEST
                      /\ response.body = "This link has expired."
                 ELSE /\ response.status = HTTP_200_OK
                      /\ \E m \in BoundOriginals(response.token) : response.file = <<m.id>>

\* C2: resolving a token value that matches no stored ExpiredLink row answers
\* 404, whatever other rows exist and whether they are valid or expired.
C2_UnknownTokenNotFound ==
    (response.kind = "token" /\ response.token \notin StoredTokens) =>
        response.status = HTTP_404_NOT_FOUND

\* C2 witness: an unknown token was resolved while an expired token is stored.
C2_Witness ==
    /\ response.kind = "token"
    /\ response.token \notin StoredTokens
    /\ \E l \in links : l.expiration_time < clock

\* C3: an upload by a user whose tier has expiring_link = FALSE never creates
\* an ExpiredLink row and never leaves a Media row with an expired_link.
C3_NoTokenWithoutLinkFlag ==
    /\ \A r \in InFlight :
          ~req[r].user.tier[1].expiring_link => \A l \in links : l.id # r
    /\ (/\ response.kind = "upload"
        /\ response.user.tier # << >>
        /\ ~response.user.tier[1].expiring_link) =>
          /\ \A l \in links : l.id # response.rid
          /\ \A m \in images : m.id = response.rid => m.expired_link = << >>

\* C4: an upload by an authenticated user whose tier grants expiring links,
\* with a valid image and no expired_time, is answered 400 with the
\* missing-duration message.
C4_MissingDurationRejected ==
    (/\ response.kind = "upload"
     /\ ~response.user.is_anonymous
     /\ response.user.tier # << >>
     /\ response.user.tier[1].expiring_link
     /\ response.image = "valid"
     /\ response.expired_time = NoValue) =>
        /\ response.status = HTTP_400_BAD_REQUEST
        /\ response.body = "Expired time is not provided for this image."

\* C5: a successful upload by a user whose tier grants expiring links, with a
\* duration d, has created exactly one ExpiredLink row, bound to the new Media
\* row, whose expiration time is the clock read by the upload plus d.
C5_TokenIssuedWithExpiration ==
    (/\ response.kind = "upload"
     /\ response.status = HTTP_201_CREATED
     /\ response.user.tier # << >>
     /\ response.user.tier[1].expiring_link
     /\ IntOf(response.expired_time) # << >>) =>
        LET issued == {l \in links : l.id = response.rid}
        IN  /\ Cardinality(issued) = 1
            /\ \A l \in issued :
                  /\ l.expiration_time =
                        response.issued_at + IntOf(response.expired_time)[1]
                  /\ \E m \in images : m.id = response.rid /\ m.expired_link = <<l.id>>

\* C6: every persisted Media row with an expired_time has
\* 300 <= expired_time <= 30000.
C6_ExpiredTimeInRange ==
    \A m \in images :
        m.expired_time # << >> =>
            /\ MinExpiredTime <= m.expired_time[1]
            /\ m.expired_time[1] <= MaxExpiredTime

\* C7: in every state, also between the two saves of one upload, every
\* persisted Media row has a stored original or a Thumbnail row.
C7_OriginalOrDerivative ==
    \A m \in images :
        \/ m.image # << >>
        \/ /\ m.thumbnail # << >>
           /\ \E t \in thumbnails : t.id = m.thumbnail[1] /\ t.thumbnail_200

\* C7 witness: a Media row after its first save (original, no thumbnail yet)
\* while its upload is still running.
C7_Witness ==
    \E r \in ReqIds :
        /\ pc[r] = "final"
        /\ \E m \in images : m.id = r /\ m.image # << >> /\ m.thumbnail = << >>

\* C8: a Media row holds an original only if its owner's tier has
\* original_photo = TRUE.
C8_OriginalOnlyWithFlag ==
    \A m \in images : m.image # << >> => OwnerTier(m).original_photo

\* C9: an upload by an authenticated user with any tier, a valid image and a
\* duration is answered 201 and has persisted a Media row.
C9_AnyTierUploads ==
    (/\ response.kind = "upload"
     /\ ~response.user.is_anonymous
     /\ response.user.tier # << >>
     /\ response.image = "valid"
     /\ IntOf(response.expired_time) # << >>) =>
        /\ response.status = HTTP_201_CREATED
        /\ \E m \in images : m.id = response.rid

\* C10: an upload without an authenticated user, with an image part, is
\* answered 400 "Cannot Add data.", never 201, and creates no Media,
\* Thumbnail or ExpiredLink row.
C10_AnonymousUploadRejected ==
    /\ \A m \in images : m.owner # AnonymousUser.id
    /\ \A r \in InFlight : ~req[r].user.is_anonymous
    /\ (/\ response.kind = "upload"
        /\ response.user.is_anonymous
        /\ response.image # "absent") =>
          /\ response.status = HTTP_400_BAD_REQUEST
          /\ response.body = "Cannot Add data."
          /\ response.rid \notin InFlight
          /\ \A t \in thumbnails : t.id # response.rid
          /\ \A l \in links : l.id # response.rid
          /\ \A m \in images : m.id # response.rid

\* C10 witness: an anonymous upload with a valid image part was answered.
C10_Witness ==
    /\ response.kind = "upload"
    /\ response.user.is_anonymous
    /\ response.image = "valid"
    /\ response.expired_time # NoValue

\* the upload answered by the last step left no row and is not in flight
NothingPersisted ==
    /\ response.rid \notin InFlight
    /\ \A t \in thumbnails : t.id # response.rid
    /\ \A l \in links : l.id # response.rid
    /\ \A m \in images : m.id # response.rid
    /\ response.rid \notin storage

C12_MissingImageRejected ==
    (response.kind = "upload" /\ response.image = "absent") =>
        /\ response.status = HTTP_400_BAD_REQUEST
        /\ response.body = "Image data not provided."

\* C13: resolving a stored, unexpired token whose bound Media has no stored
\* original is answered with a 4xx error, neither a file nor a 500.
C13_NoOriginalIsClientError ==
    (/\ response.kind = "token"
     /\ \E l \in links :
           /\ l.token = response.token
           /\ ~(l.expiration_time < clock)
           /\ \E m \in images : m.expired_link = <<l.id>>
           /\ \A m \in images : m.expired_link = <<l.id>> => m.image = << >>) =>
        /\ response.status >= HTTP_400_BAD_REQUEST
        /\ response.status < HTTP_500_INTERNAL_SERVER_ERROR

\* the Media rows owned by the user that the last response answers
OwnedByViewer == {m \in images : m.owner = response.user.id}

\* C14: a list request by an authenticated user is answered 200 with exactly
\* one entry for each Media row the user owns and no entry for a row of
\* another user; a user that owns none gets 200 and the empty list.
C14_ListOwnedOnly ==
    (response.kind = "list" /\ ~response.user.is_anonymous) =>
        /\ response.status = HTTP_200_OK
        /\ {e.id : e \in response.entries} = {m.id : m \in OwnedByViewer}
        /\ Cardinality(response.entries) = Cardinality(OwnedByViewer)
        /\ \A e \in response.entries : e.owner = <<response.user.id>>

\* C14 witness: a user listed their one Media row while being answered.
C14_Witness ==
    /\ response.kind = "list"
    /\ response.entries # {}
    /\ OwnedByViewer # {}

\* the viewer of the last response has a tier with original_photo = TRUE
ViewerRetainsOriginal ==
    /\ response.user.tier # << >>
    /\ response.user.tier[1].original_photo

\* C15 as stated: an entry of a listing exposes the link of the original or
\* the owner only to a viewer whose tier has original_photo = TRUE.
C15_OriginalAndOwnerOnlyWithFlag ==
    (response.kind = "list" /\ response.status = HTTP_200_OK) =>
        \A e \in response.entries :
            (e.image # << >> \/ e.owner # << >>) => ViewerRetainsOriginal

\* C15: every entry of a listing exposes the owner, and the link of the
\* original whenever the Media row has one, whatever the tier of the viewer.
C15_OriginalAndOwnerAlwaysListed ==
    (response.kind = "list" /\ response.status = HTTP_200_OK) =>
        \A m \in OwnedByViewer :
            \E e \in response.entries :
                /\ e.id = m.id
                /\ e.image = m.image
                /\ e.owner = <<m.owner>>

\* C15 witness: a viewer whose tier lacks original_photo was listed a Media
\* row that has an original.
C15_Witness ==
    /\ response.kind = "list"
    /\ ~ViewerRetainsOriginal
    /\ \E e \in response.entries : e.image # << >> /\ e.owner # << >>

\* C16: ImageSerializer exposes exactly {id, image, expired_time} to a user
\* whose tier is named "Enterprise" and exactly {id, image} to a user of any
\* other tier; owner, thumbnail and expired_link are exposed to neither.
C16_SerializerFields ==
    (response.kind = "serializer" /\ response.user.tier # << >>) =>
        /\ response.keys =
              IF response.user.tier[1].name = "Enterprise"
                THEN {"id", "image", "expired_time"}
                ELSE {"id", "image"}
        /\ response.keys \cap {"owner", "thumbnail", "expired_link"} = {}

\* C16 witness: a user whose tier is named "Enterprise" and has no flag set
\* had a row serialized.
C16_Witness ==
    /\ response.kind = "serializer"
    /\ response.user.tier # << >>
    /\ response.user.tier[1].name = "Enterprise"
    /\ ~response.user.tier[1].expiring_link
    /\ response.keys # {}

\* C17: requesting the expired_link URL that the 201 response of an
\* Enterprise upload carried returns the uploaded original until the
\* expiration time and the 400 "This link has expired." after it.
C17_UploadLinkResolves ==
    response.kind = "link" =>
        \A l \in links : l.id = response.rid =>
            IF l.expiration_time < clock
              THEN /\ response.status = HTTP_400_BAD_REQUEST
                   /\ response.body = "This link has expired."
              ELSE /\ response.status = HTTP_200_OK
                   /\ response.file = <<response.rid>>

\* the longer of the two edges of a size
LongEdge(size) == IF size[1] >= size[2] THEN size[1] ELSE size[2]

\* rendition is what the claim says of a source and a target size: the
\* source itself when its long edge is below the target, else a size whose
\* long edge is the target and whose short edge is the proportional one,
\* within one pixel.
CappedOnLongEdge(source, rendition, target) ==
    IF LongEdge(source) < target
      THEN rendition = source
      ELSE /\ LongEdge(rendition) = target
           /\ (source[1] >= source[2]) => rendition[1] = target
           /\ (source[2] >= source[1]) => rendition[2] = target
           /\ Abs(rendition[1] * source[2] - rendition[2] * source[1])
                 <= LongEdge(source)

\* C18: the small rendition of create_img_200 and create_img_200_400 has its
\* long edge equal to 200 when the source's long edge is at least 200, keeps
\* the aspect ratio within rounding, and is the source when the source is
\* smaller; likewise the large rendition with 400.
C18_LongEdgeCapped ==
    response.kind = "thumbnail" =>
        \A e \in response.entries :
            /\ CappedOnLongEdge(e.source, e.thumbnail_200[1], SmallTarget)
            /\ e.thumbnail_400 # << >> =>
                  CappedOnLongEdge(e.source, e.thumbnail_400[1], LargeTarget)

\* no row and no blob written by the upload answered by the last step is left
NoTraceOfUpload ==
    /\ \A t \in thumbnails : t.id # response.rid
    /\ \A l \in links : l.id # response.rid
    /\ \A m \in images : m.id # response.rid
    /\ response.rid \notin storage

\* C19: an upload that fails because its image cannot be decoded or is not
\* a jpeg or png leaves no Thumbnail row, no ExpiredLink row, no stored
\* original and no Media row of that request behind.
C19_FailedUploadLeavesNothing ==
    (/\ response.kind = "upload"
     /\ response.status # HTTP_201_CREATED
     /\ response.image \in {"invalid", "undecodable"}) =>
        NoTraceOfUpload

\* C20: an upload whose content type is accepted and whose bytes cannot be
\* decoded is answered 400.
C20_UndecodableIsBadRequest ==
    (response.kind = "upload" /\ response.image = "undecodable") =>
        response.status = HTTP_400_BAD_REQUEST

\* C21: a step that resolves a token leaves the Thumbnail, ExpiredLink and
\* Images tables and the storage as they were, whatever it answers; a stored
\* token whose expiration time is past is answered 400 "This link has
\* expired.", never 404.
C21_TokenResolutionReadOnly ==
    [][response'.kind = "token" =>
          /\ UNCHANGED <<thumbnails, links, images, storage>>
          /\ \A l \in links :
                (l.token = response'.token /\ l.expiration_time < clock) =>
                    /\ response'.status = HTTP_400_BAD_REQUEST
                    /\ response'.body = "This link has expired."]_vars

\* C21 witness: an expired token was resolved and its row is still stored.
C21_Witness ==
    /\ response.kind = "token"
    /\ response.body = "This link has expired."
    /\ \E l \in links : l.token = response.token /\ l.expiration_time < clock

\* the last step resolved the token t
Resolved(t) == response.kind = "token" /\ response.token = t

\* the last step answered that the token t has expired
AnsweredExpired(t) ==
    /\ Resolved(t)
    /\ response.status = HTTP_400_BAD_REQUEST
    /\ response.body = "This link has expired."

\* a row with the token t is stored and its expiration time is past
ExpiredNow(t) == \E l \in links : l.token = t /\ l.expiration_time < clock

\* C22: once a resolution of a stored token has answered "expired", every
\* later resolution of that token answers "expired" too, whatever uploads,
\* listings, clock advances and other resolutions happen in between: a
\* resolution answers "expired" exactly when the stored token's expiration
\* time is past, and no step makes a past expiration time not past.
C22_ExpiredForGood ==
    [][\A t \in ReqIds :
          /\ AnsweredExpired(t)' => ExpiredNow(t)'
          /\ (Resolved(t)' /\ ExpiredNow(t)') => AnsweredExpired(t)'
          /\ ExpiredNow(t) => ExpiredNow(t)']_vars

\* C22 witness: a token was answered "expired" while the upload that issued
\* it was still running, so that steps which change the tables follow.
C22_Witness ==
    \E t \in ReqIds : AnsweredExpired(t) /\ t \in InFlight

\* C23: when no upload is running, every ExpiredLink row is referenced by
\* exactly one Images row.
C23_TokenBoundToOneMedia ==
    InFlight = {} =>
        \A l \in links :
            Cardinality({m \in images : m.expired_link = <<l.id>>}) = 1

\* C24: a listing never shows a Media row of the viewer that has its
\* original without its two thumbnails or, for a viewer whose tier grants
\* expiring links, without its expired_link.
C24_ListSeesWholeUploads ==
    (response.kind = "list" /\ response.status = HTTP_200_OK) =>
        \A e \in response.entries :
            e.image # << >> =>
                /\ e.thumbnail_200
                /\ e.thumbnail_400
                /\ response.user.tier[1].expiring_link => e.expired_link # << >>

\* C25: a step that answers an upload with 400 leaves the Thumbnail,
\* ExpiredLink and Images tables and the storage as they were, and no row or
\* blob of that request exists.
C25_BadRequestWritesNothing ==
    [][(response'.kind = "upload" /\ response'.status = HTTP_400_BAD_REQUEST) =>
          /\ UNCHANGED <<thumbnails, links, images, storage>>
          /\ \A t \in thumbnails : t.id # response'.rid
          /\ \A l \in links : l.id # response'.rid
          /\ \A m \in images : m.id # response'.rid
          /\ response'.rid \notin storage]_vars

\* C25 witness: a user whose tier is named neither Basic, Premium nor
\* Enterprise sent a valid image and was answered 400.
C25_Witness ==
    /\ response.kind = "upload"
    /\ response.status = HTTP_400_BAD_REQUEST
    /\ response.image = "valid"
    /\ response.body = "Expired time is not provided for this image."

====
